---- MODULE Spec2Model ----
(***************************************************************************)
(* The dependency-injection container of agentcore (agentcore/di.py) and   *)
(* the binding store below it (agentcore/structures/registry.py).          *)
(*                                                                         *)
(* A container is a keyed store of bindings (key -> instance or alias      *)
(* type) and a flag that switches type validation.  resolve walks the      *)
(* bindings and the constructors' signatures; AsyncCaller.call resolves a  *)
(* callable's parameters and invokes it.                                   *)
(***************************************************************************)
EXTENDS Integers, Sequences, FiniteSets, TLC

VARIABLES
    store,      \* the dict each container's _items refers to
    bindings,   \* the contents of each dict: key -> value (NoneV = no entry)
    checking,   \* Injector._enable_type_checking of each container
    live,       \* the containers that exist
    origin,     \* which method wrote each key's binding last
    nbinds,     \* the number of binding operations so far
    last,       \* the latest operation, its arguments and its outcome
    task,       \* the event-loop tasks that await AsyncCaller.call
    loop,       \* the task that runs on the event-loop thread, or "none"
    queue,      \* the work items submitted to the executor, not yet started
    worker      \* what each worker thread of the executor runs

\* The state of the invocation layer's scheduling.
avars == <<task, loop, queue, worker>>

vars == <<store, bindings, checking, live, origin, nbinds, last, avars>>

(***************************************************************************)
(* Bounds                                                                  *)
(***************************************************************************)
\* Python's recursion limit, scaled down: a resolution nested deeper than
\* this raises RecursionError.
RecursionLimit == 8
\* The number of binding operations (bind, bind_instance, bind_singleton)
\* in one run.
MaxBinds == 3

(***************************************************************************)
(* Values: None, a class object, or an instance with an identity.          *)
(***************************************************************************)
NoneV == [kind |-> "none"]
TypeV(t) == [kind |-> "type", name |-> t]
Obj(i, c, a) == [kind |-> "obj", id |-> i, cls |-> c, args |-> a]
NoArgs == <<>>

\* Instances that exist before any resolution: what callers pass in.
fixedClock0 == Obj(1, "FixedClock", NoArgs)
text0 == Obj(2, "str", NoArgs)
Pool == {fixedClock0, text0}

(***************************************************************************)
(* The types of the application: classes, with their constructors'         *)
(* signatures, and the type expressions that appear as annotations.        *)
(***************************************************************************)
Primitives == {"str", "int", "bool", "float"}
\* Classes whose instantiation raises TypeError (abstract base classes,
\* protocols).
AbstractClasses == {"Clock", "Greeter"}
UserClasses == {"Clock", "FixedClock", "A", "B", "Svc", "Named"}
\* Classes that share a dependency: Top(left: Left, right: Right), where
\* Left(clock: FixedClock) and Right(clock: FixedClock).
GraphClasses == {"Top", "Left", "Right"}
\* Protocol classes, none of them runtime_checkable.
Protocols == {"Greeter"}
Classes == UserClasses \cup GraphClasses \cup Protocols \cup Primitives \cup {"NoneType"}

\* The direct and indirect base classes of a class, itself included.
Mro(c) ==
    IF c = "FixedClock" THEN {"FixedClock", "Clock"}
    ELSE IF c = "bool" THEN {"bool", "int"}
    ELSE {c}

Param(n, h, r) == [name |-> n, hint |-> h, required |-> r]

\* inspect.signature(cls.__init__) without self, with get_type_hints.
InitParams(c) ==
    CASE c = "A" -> <<Param("b", "B", TRUE)>>
      [] c = "B" -> <<Param("a", "A", FALSE)>>
      [] c = "Svc" -> <<Param("clock", "Clock", TRUE), Param("name", "str", FALSE)>>
      [] c = "Named" -> <<Param("name", "str", TRUE)>>
      [] c = "Top" -> <<Param("left", "Left", TRUE), Param("right", "Right", TRUE)>>
      [] c = "Left" -> <<Param("clock", "FixedClock", TRUE)>>
      [] c = "Right" -> <<Param("clock", "FixedClock", TRUE)>>
      [] OTHER -> <<>>

\* Union annotations and their candidates, in declaration order.
Unions == {"FixedClock|None", "str|None", "FixedClock|B", "str|FixedClock",
           "Clock|FixedClock"}
UnionArgs(t) ==
    CASE t = "FixedClock|None" -> <<"FixedClock", "NoneType">>
      [] t = "str|None" -> <<"str", "NoneType">>
      [] t = "FixedClock|B" -> <<"FixedClock", "B">>
      [] t = "str|FixedClock" -> <<"str", "FixedClock">>
      [] t = "Clock|FixedClock" -> <<"Clock", "FixedClock">>
      [] t = "str|Left" -> <<"str", "Left">>
      [] t = "Greeter|None" -> <<"Greeter", "NoneType">>
      [] t = "int|Any" -> <<"int", "Any">>
      [] OTHER -> <<>>
\* Unions that appear as requests or annotations of the sibling graph and
\* as expected types of a validation.
GraphUnions == {"str|Left", "Greeter|None", "int|Any"}
IsUnion(t) == t \in Unions \cup GraphUnions

\* Annotations that are not classes: no annotation, Any, generic aliases.
NoHint == "NoHint"
GenericAliases == {"list[int]"}
\* get_origin of a generic alias
Origin(t) == IF t = "list[int]" THEN "list" ELSE NoHint

(***************************************************************************)
(* Callables handed to resolve_params and AsyncCaller.call.                *)
(***************************************************************************)
Function(n, ps) == [kind |-> "function", name |-> n, params |-> ps, keywords |-> <<>>]
Partial(f, kw) == [kind |-> "partial", name |-> f.name, params |-> f.params, keywords |-> kw]

\* def use_clock(clock: Clock)
use_clock == Function("use_clock", <<Param("clock", "Clock", TRUE)>>)
\* def greet(name: str = ...)
greet == Function("greet", <<Param("name", "str", FALSE)>>)
\* def describe(text: str, count: int = ..., anything: Any = ...,
\*              items: list[int] = ..., raw = ..., note: str | None = ...)
describe ==
    Function("describe",
             <<Param("text", "str", TRUE), Param("count", "int", FALSE),
               Param("anything", "Any", FALSE), Param("items", "list[int]", FALSE),
               Param("raw", NoHint, FALSE), Param("note", "str|None", FALSE)>>)
\* def pair(left: Left, right: Right)
pair == Function("pair", <<Param("left", "Left", TRUE), Param("right", "Right", TRUE)>>)
\* def render(clock: Clock, name: str = ..., **kw)
render ==
    Function("render",
             <<Param("clock", "Clock", TRUE), Param("name", "str", FALSE),
               Param("kw", NoHint, FALSE)>>)
\* cls.__init__ as _resolve_type hands it to _resolve_params
InitOf(c) == Function(c, InitParams(c))

(***************************************************************************)
(* Outcomes.  st is "ok", "absent" (None) or the exception raised.         *)
(***************************************************************************)
Raised(st) == st \notin {"ok", "absent"}

\* The identities in use and the constructor invocations so far.
Heap(used, log) == [used |-> used, log |-> log]
FreshId(used) == CHOOSE i \in 1..(Cardinality(used) + 1) :
                    i \notin used /\ \A j \in 1..(i - 1) : j \in used

TypeResult(st, val, h) == [st |-> st, val |-> val, h |-> h]
ParamsResult(st, bound, h, engine, param) ==
    [st |-> st, bound |-> bound, h |-> h, engine |-> engine, param |-> param]

(***************************************************************************)
(* Injector._is_type_compatible and _validate_parameter_type               *)
(***************************************************************************)
\* isinstance(value, cls)
IsInstance(value, c) ==
    CASE value.kind = "obj" -> c \in Mro(value.cls)
      [] value.kind = "none" -> c = "NoneType"
      [] OTHER -> FALSE

\* Protocols that are not runtime_checkable: isinstance raises TypeError.
UncheckableProtocols == Protocols

\* A check of plain types that accepts every value.
IsPlainCompatible_Lenient(value, expected) == TRUE

\* _is_type_compatible for an expected type that is not a union.
IsPlainCompatible(value, expected) ==
    IF expected \in {NoHint, "Any"} THEN TRUE
    ELSE IF value.kind = "none" THEN expected = "NoneType"
    ELSE IF expected \in GenericAliases THEN IsInstance(value, Origin(expected))
    ELSE IF expected \in Classes
         THEN expected \in UncheckableProtocols \/ IsInstance(value, expected)
    ELSE TRUE

IsTypeCompatible(value, expected) ==
    IF expected \in {NoHint, "Any"} THEN TRUE
    ELSE IF value.kind = "none"
         THEN IF IsUnion(expected)
              THEN \E i \in DOMAIN UnionArgs(expected) : UnionArgs(expected)[i] = "NoneType"
              ELSE expected = "NoneType"
    ELSE IF IsUnion(expected)
         THEN \E i \in DOMAIN UnionArgs(expected) :
                  IsPlainCompatible(value, UnionArgs(expected)[i])
    ELSE IsPlainCompatible(value, expected)

\* A validation that accepts every value.
ValidateParameterType_Off(chk, value, expected) == TRUE

\* A validation that ignores the container's switch.
ValidateParameterType_Always(chk, value, expected) ==
    \/ expected = NoHint
    \/ IsTypeCompatible(value, expected)

\* TRUE when _validate_parameter_type returns, FALSE when it raises
\* TypeMismatchError.
ValidateParameterType(chk, value, expected) ==
    \/ ~chk
    \/ expected = NoHint
    \/ IsTypeCompatible(value, expected)

(***************************************************************************)
(* Injector._resolve_type and Injector._resolve_params                     *)
(***************************************************************************)
\* A container as the engine sees it.
Injector(items, chk) == [items |-> items, chk |-> chk]

\* A lookup that never finds the binding.
Get_Miss(inj, key) == NoneV

\* Registry.get(key, None) through Mapping.get
Get(inj, key) == IF key \in DOMAIN inj.items THEN inj.items[key] ELSE NoneV

\* A short circuit that also skips abstract classes.
ShortCircuit_Abstract(t) ==
    \/ t = "NoHint"
    \/ t \in Primitives \cup {"Any", "NoneType"}
    \/ t \notin Classes
    \/ t \in AbstractClasses

\* A short circuit without the test for generic aliases.
ShortCircuit_NoGenerics(t) ==
    \/ t = "NoHint"
    \/ t \in Primitives \cup {"Any", "NoneType"}

\* The guard of the short circuit: nothing requested, a primitive, Any,
\* NoneType, or not a class.
ShortCircuit(t) ==
    \/ t = NoHint
    \/ t \in Primitives \cup {"Any", "NoneType"}
    \/ t \notin Classes

\* A cycle check that never fires.
InStack_Never(t, stack) == FALSE

\* abstract_type in _resolution_stack
InStack(t, stack) == \E i \in DOMAIN stack : stack[i] = t

\* A stack that forgets the key it is given.
Push_Forget(stack, t) == stack

\* [*_resolution_stack, abstract_type]
Push(stack, t) == Append(stack, t)

\* inspect.isclass(result): the binding is an alias
IsAlias(result) == result.kind = "type"

\* A call that never misses an argument.
MissingRequired_None(params, bound) == {}

\* The parameters without a default that the bound arguments leave out.
MissingRequired(params, bound) ==
    {i \in DOMAIN params : params[i].required /\ params[i].name \notin DOMAIN bound}

\* A construction that hands out one shared instance per class.
Construct_Shared(c, bound, h) ==
    TypeResult("ok", Obj(1, c, bound),
               Heap(h.used, Append(h.log, [cls |-> c, args |-> bound, st |-> "ok"])))

\* abstract_type(*params.args, **params.kwargs): a new instance, or the
\* TypeError of an abstract class or of a missing required argument.
Construct(c, bound, h) ==
    IF c \in AbstractClasses \/ MissingRequired(InitParams(c), bound) # {}
    THEN TypeResult("TypeError", NoneV,
                    Heap(h.used, Append(h.log, [cls |-> c, args |-> bound, st |-> "TypeError"])))
    ELSE LET i == FreshId(h.used) IN
         TypeResult("ok", Obj(i, c, bound),
                    Heap(h.used \cup {i}, Append(h.log, [cls |-> c, args |-> bound, st |-> "ok"])))

\* A lookup that returns a copy of the bound instance.
Found_Copy(result, h) ==
    TypeResult("ok", Obj(FreshId(h.used), result.cls, result.args), h)

\* What a bound instance resolves to.
Found(result, h) == TypeResult("ok", result, h)

\* An engine that never looks at the overrides.
Provided_Never(kwargs, name) == FALSE

\* param.name in provided_kwargs
Provided(kwargs, name) == name \in DOMAIN kwargs

\* A union branch that goes on to the next candidate when one raised.
IsNotNone_OkOnly(r) == r.st = "ok"

\* A union branch that takes no candidate's result.
IsNotNone_Never(r) == Raised(r.st)

\* instance is not None: the candidate produced something (an exception of
\* the candidate leaves the loop as well).
IsNotNone(r) == Raised(r.st) \/ r.st = "ok"

\* A stack that every resolution of the request appends to and none pops:
\* the classes constructed so far are still on it.
SiblingStack_Shared(stack, h) == stack \o [j \in DOMAIN h.log |-> h.log[j].cls]

\* The stack a parameter's type is resolved with: the list
\* _resolve_params was given, which the resolutions of the earlier
\* parameters have not touched (they extend copies of it).
SiblingStack(stack, h) == stack

\* Bound arguments that take in every override.
BoundArguments_Forwarding(resolved, kwargs) == kwargs @@ resolved

\* signature.bind_partial(**resolved): the arguments collected for the
\* declared parameters, and nothing else of provided_kwargs.
BoundArguments(resolved, kwargs) == resolved

\* Overrides that are handed on to the resolution of every parameter.
DependencyKwargs_Inherited(kwargs) == kwargs

\* The overrides a parameter's type is resolved with: none, the call
\* self._resolve_type(param_type, _resolution_stack) passes no keywords.
DependencyKwargs(kwargs) == <<>>

RECURSIVE ResolveType(_, _, _, _, _, _)
RECURSIVE ResolveUnion(_, _, _, _, _, _, _)
RECURSIVE ResolveParamsFrom(_, _, _, _, _, _, _, _, _)

\* _resolve_params: the loop over the signature's parameters, from the
\* i-th on, with the arguments resolved so far.
ResolveParamsFrom(inj, target, i, stack, kwargs, resolved, engine, h, depth) ==
    IF i > Len(target.params)
    THEN ParamsResult("ok", BoundArguments(resolved, kwargs), h, engine, "")
    ELSE
      LET p == target.params[i] IN
      IF Provided(kwargs, p.name)
      THEN IF ~ValidateParameterType(inj.chk, kwargs[p.name], p.hint)
           THEN ParamsResult("TypeMismatchError", resolved, h, engine, p.name)
           ELSE ResolveParamsFrom(inj, target, i + 1, stack, kwargs,
                                  (p.name :> kwargs[p.name]) @@ resolved, engine, h, depth)
      ELSE IF target.kind = "partial" /\ p.name \in DOMAIN target.keywords
      THEN IF ~ValidateParameterType(inj.chk, target.keywords[p.name], p.hint)
           THEN ParamsResult("TypeMismatchError", resolved, h, engine, p.name)
           ELSE ResolveParamsFrom(inj, target, i + 1, stack, kwargs, resolved, engine, h, depth)
      ELSE
        LET r == ResolveType(inj, p.hint, SiblingStack(stack, h),
                             DependencyKwargs(kwargs), h, depth + 1) IN
        IF Raised(r.st)
        THEN ParamsResult(r.st, resolved, r.h, engine \cup {p.name}, p.name)
        ELSE IF r.st = "ok"
        THEN IF ~ValidateParameterType(inj.chk, r.val, p.hint)
             THEN ParamsResult("TypeMismatchError", resolved, r.h, engine \cup {p.name}, p.name)
             ELSE ResolveParamsFrom(inj, target, i + 1, stack, kwargs,
                                    (p.name :> r.val) @@ resolved, engine \cup {p.name},
                                    r.h, depth)
        ELSE ResolveParamsFrom(inj, target, i + 1, stack, kwargs, resolved,
                               engine \cup {p.name}, r.h, depth)

\* get_type_hints(target) raises for an object without annotations, such
\* as a functools.partial; _resolve_params wraps it in a TypeError.
TypeHintsFail(target) == target.kind = "partial"

ResolveParams(inj, target, stack, kwargs, h, depth) ==
    IF depth > RecursionLimit
    THEN ParamsResult("RecursionError", <<>>, h, {}, "")
    ELSE IF TypeHintsFail(target)
    THEN ParamsResult("TypeError", <<>>, h, {}, "")
    ELSE ResolveParamsFrom(inj, target, 1, stack, kwargs, <<>>, {}, h, depth)

\* The union branch: the candidates from the i-th on.
ResolveUnion(inj, args, i, stack, kwargs, h, depth) ==
    IF i > Len(args)
    THEN TypeResult("absent", NoneV, h)
    ELSE LET r == ResolveType(inj, args[i], stack, kwargs, h, depth + 1) IN
         IF IsNotNone(r)
         THEN r
         ELSE ResolveUnion(inj, args, i + 1, stack, kwargs, r.h, depth)

ResolveType(inj, t, stack, kwargs, h, depth) ==
    IF depth > RecursionLimit
    THEN TypeResult("RecursionError", NoneV, h)
    ELSE IF IsUnion(t)
    THEN ResolveUnion(inj, UnionArgs(t), 1, stack, kwargs, h, depth)
    ELSE IF ShortCircuit(t)
    THEN TypeResult("absent", NoneV, h)
    ELSE IF InStack(t, stack)
    THEN TypeResult("absent", NoneV, h)
    ELSE
      LET result == Get(inj, t) IN
      IF result # NoneV
      THEN IF IsAlias(result)
           THEN ResolveType(inj, result.name, Push(stack, t), kwargs, h, depth + 1)
           ELSE Found(result, h)
      ELSE
        LET ps == ResolveParams(inj, InitOf(t), Push(stack, t), kwargs, h, depth + 1) IN
        IF ps.st # "ok"
        THEN TypeResult(ps.st, NoneV, ps.h)
        ELSE Construct(t, ps.bound, ps.h)

\* Injector.resolve: None becomes ResolutionError.
Resolve(inj, t, kwargs, h) ==
    LET r == ResolveType(inj, t, <<>>, kwargs, h, 0) IN
    IF r.st = "absent" THEN TypeResult("ResolutionError", NoneV, r.h) ELSE r

(***************************************************************************)
(* AsyncCaller.call                                                        *)
(***************************************************************************)
\* The introspectable target of a callable: a functools.partial is
\* replaced by its underlying function.
Normalize(callable) ==
    IF callable.kind = "partial"
    THEN Function(callable.name, callable.params)
    ELSE callable

\* method(*bound_args.args, **bound_args.kwargs): the call raises the
\* ordinary TypeError when a parameter without a default is left out.
Invoke(target, bound) ==
    IF MissingRequired(target.params, bound) # {} THEN "TypeError" ELSE "ok"

(***************************************************************************)
(* The containers                                                          *)
(***************************************************************************)
Containers == {"root", "child"}
Dicts == {"d_root", "d_child"}
Keys == UserClasses \cup {"str"}
Empty == [k \in Keys |-> NoneV]

\* self._items of container c
Items(c) == bindings[store[c]]
WriterOf(c, key) == origin[store[c]][key]

RECURSIVE IdsOf(_)
IdsOf(v) ==
    IF v.kind # "obj" THEN {}
    ELSE {v.id} \cup UNION {IdsOf(v.args[n]) : n \in DOMAIN v.args}

IdsIn(f) == UNION {IdsOf(f[n]) : n \in DOMAIN f}
PoolIds == UNION {IdsOf(x) : x \in Pool}
BoundIds == UNION {IdsIn(bindings[d]) : d \in Dicts}

\* The identities some reference still holds: the callers' instances, the
\* bindings of every container and the latest result.
LiveIds ==
    PoolIds \cup BoundIds
    \cup IdsOf(last.val) \cup IdsIn(last.bound) \cup IdsIn(last.kwargs)

Heap0 == Heap(LiveIds, <<>>)
Inj(c) == Injector(Items(c), checking[c])

\* The record of an operation and its outcome.
NoTarget == Function("", <<>>)
Op(op, c, key, target, kwargs) ==
    [op |-> op, c |-> c, key |-> key, target |-> target, kwargs |-> kwargs,
     st |-> "ok", val |-> NoneV, log |-> <<>>, bound |-> <<>>, engine |-> {},
     invoked |-> FALSE, param |-> "", concrete |-> "", warned |-> FALSE,
     compatible |-> FALSE]

\* The caller holds the result of its latest resolve, resolve_params or
\* call until it drops it; while it holds one, it only repeats the request.
ReadOps == {"resolve", "resolve_params", "call"}
Holding == last.op \in ReadOps
MayRequest(op, c, key, target, kwargs) ==
    Holding => /\ last.op = op /\ last.c = c /\ last.key = key
               /\ last.target = target /\ last.kwargs = kwargs

\* A store that keeps the first value registered for a key.
SetItem_KeepFirst(items, key, value) ==
    IF items[key] # NoneV THEN items ELSE [items EXCEPT ![key] = value]

\* Registry._set(index, value): one entry per key, the last value wins.
SetItem(items, key, value) == [items EXCEPT ![key] = value]

\* _warn_on_overwrite and index in self._items: the warning is printed.
Warns(warn_on_overwrite, items, key) == warn_on_overwrite /\ items[key] # NoneV

\* Registry.add(index, value): _set with the warning on overwrite.
Add(c, key, value) ==
    /\ c \in live /\ ~Holding
    /\ nbinds < MaxBinds
    /\ bindings' = [bindings EXCEPT ![store[c]] = SetItem(@, key, value)]
    /\ origin' = [origin EXCEPT ![store[c]][key] = "add"]
    /\ nbinds' = nbinds + 1
    /\ last' = [Op("add", c, key, NoTarget, <<>>) EXCEPT
                  !.val = value, !.warned = Warns(TRUE, Items(c), key)]
    /\ UNCHANGED <<store, checking, live, avars>>

\* Registry.set(index, value): _set without the warning.
Set(c, key, value) ==
    /\ c \in live /\ ~Holding
    /\ nbinds < MaxBinds
    /\ bindings' = [bindings EXCEPT ![store[c]] = SetItem(@, key, value)]
    /\ origin' = [origin EXCEPT ![store[c]][key] = "set"]
    /\ nbinds' = nbinds + 1
    /\ last' = [Op("set", c, key, NoTarget, <<>>) EXCEPT
                  !.val = value, !.warned = Warns(FALSE, Items(c), key)]
    /\ UNCHANGED <<store, checking, live, avars>>

\* Injector.bind
Bind(c, key, value) ==
    /\ c \in live /\ ~Holding
    /\ nbinds < MaxBinds
    /\ bindings' = [bindings EXCEPT ![store[c]] = SetItem(@, key, value)]
    /\ origin' = [origin EXCEPT ![store[c]][key] = "bind"]
    /\ nbinds' = nbinds + 1
    /\ last' = Op("bind", c, key, NoTarget, <<>>)
    /\ UNCHANGED <<store, checking, live, avars>>

\* Injector.bind_instance: the key is type(instance).
BindInstance(c, instance) ==
    /\ c \in live /\ ~Holding
    /\ nbinds < MaxBinds
    /\ bindings' = [bindings EXCEPT ![store[c]] = SetItem(@, instance.cls, instance)]
    /\ origin' = [origin EXCEPT ![store[c]][instance.cls] = "bind_instance"]
    /\ nbinds' = nbinds + 1
    /\ last' = [Op("bind_instance", c, instance.cls, NoTarget, <<>>) EXCEPT !.val = instance]
    /\ UNCHANGED <<store, checking, live, avars>>

\* A bind that runs whether resolve returned or raised.
ResolveReturned_Always(r) == TRUE

\* instance = self.resolve(...) returned: the statement after it, the
\* bind, is reached.
ResolveReturned(r) == r.st = "ok"

\* Injector.bind_singleton: resolve, then bind the instance; an exception
\* of resolve leaves before the bind.
BindSingleton(c, key, kwargs) ==
    /\ c \in live /\ ~Holding
    /\ nbinds < MaxBinds
    /\ LET r == Resolve(Inj(c), key, kwargs, Heap0) IN
       /\ last' = [Op("bind_singleton", c, key, NoTarget, kwargs) EXCEPT
                     !.st = r.st, !.val = r.val, !.log = r.h.log]
       /\ IF ResolveReturned(r)
          THEN /\ bindings' = [bindings EXCEPT ![store[c]] = SetItem(@, key, r.val)]
               /\ origin' = [origin EXCEPT ![store[c]][key] = "bind_singleton"]
          ELSE UNCHANGED <<bindings, origin>>
    /\ nbinds' = nbinds + 1
    /\ UNCHANGED <<store, checking, live, avars>>

\* A bind_to_instance_of that binds the concrete type's own key.
BoundKey_Concrete(abstract, concrete) == concrete

\* self.bind(abstract, instance): the key bind_to_instance_of writes.
BoundKey(abstract, concrete) == abstract

\* Injector.bind_to_instance_of: resolve the concrete type, then bind the
\* instance under the abstract key; an exception of resolve leaves before
\* the bind.
BindToInstanceOf(c, abstract, concrete, kwargs) ==
    /\ c \in live /\ ~Holding
    /\ nbinds < MaxBinds
    /\ LET r == Resolve(Inj(c), concrete, kwargs, Heap0)
           key == BoundKey(abstract, concrete)
       IN
       /\ last' = [Op("bind_to_instance_of", c, abstract, NoTarget, kwargs) EXCEPT
                     !.concrete = concrete, !.st = r.st, !.val = r.val, !.log = r.h.log]
       /\ IF ResolveReturned(r)
          THEN /\ bindings' = [bindings EXCEPT ![store[c]] = SetItem(@, key, r.val)]
               /\ origin' = [origin EXCEPT ![store[c]][key] = "bind_to_instance_of"]
          ELSE UNCHANGED <<bindings, origin>>
    /\ nbinds' = nbinds + 1
    /\ UNCHANGED <<store, checking, live, avars>>

\* A resolve that keeps what it produced as the key's binding.
ItemsAfterResolve_Cached(items, key, r) ==
    IF r.st = "ok" /\ key \in DOMAIN items THEN [items EXCEPT ![key] = r.val] ELSE items

\* The store after resolve: the instance is returned, or the exception
\* raised, and nothing is registered.
ItemsAfterResolve(items, key, r) == items

\* Injector.resolve
ResolveOp(c, key, kwargs) ==
    /\ c \in live /\ MayRequest("resolve", c, key, NoTarget, kwargs)
    /\ LET r == Resolve(Inj(c), key, kwargs, Heap0) IN
       /\ last' = [Op("resolve", c, key, NoTarget, kwargs) EXCEPT
                     !.st = r.st, !.val = r.val, !.log = r.h.log]
       /\ bindings' = [bindings EXCEPT ![store[c]] = ItemsAfterResolve(@, key, r)]
    /\ UNCHANGED <<store, checking, live, origin, nbinds, avars>>

RECURSIVE ResolveClassRecursive(_, _, _)
\* Injector._resolve_class_recursive: follow the bindings that are classes;
\* the result is the class reached, or the RecursionError of a chain that
\* does not end.
ResolveClassRecursive(inj, t, depth) ==
    IF depth > RecursionLimit
    THEN TypeResult("RecursionError", NoneV, Heap({}, <<>>))
    ELSE LET concrete == Get(inj, t) IN
         IF IsAlias(concrete)
         THEN ResolveClassRecursive(inj, concrete.name, depth + 1)
         ELSE TypeResult("ok", TypeV(t), Heap({}, <<>>))

\* Injector.resolve_class
ResolveClassOp(c, key) ==
    /\ c \in live /\ ~Holding
    /\ LET r == ResolveClassRecursive(Inj(c), key, 0) IN
       last' = [Op("resolve_class", c, key, NoTarget, <<>>) EXCEPT
                  !.st = r.st, !.val = r.val]
    /\ UNCHANGED <<store, bindings, checking, live, origin, nbinds, avars>>

\* Injector.resolve_params
ResolveParamsOp(c, target, kwargs) ==
    /\ c \in live /\ MayRequest("resolve_params", c, "", target, kwargs)
    /\ LET ps == ResolveParams(Inj(c), target, <<>>, kwargs, Heap0, 0) IN
       last' = [Op("resolve_params", c, "", target, kwargs) EXCEPT
                  !.st = ps.st, !.log = ps.h.log, !.bound = ps.bound,
                  !.engine = ps.engine, !.param = ps.param]
    /\ UNCHANGED <<store, bindings, checking, live, origin, nbinds, avars>>

\* AsyncCaller.call: normalize, resolve the parameters, invoke the target
\* with the bound arguments and nothing else.
Call(c, callable, kwargs) ==
    /\ c \in live /\ MayRequest("call", c, "", callable, kwargs)
    /\ LET target == Normalize(callable)
           ps == ResolveParams(Inj(c), target, <<>>, kwargs, Heap0, 0)
       IN last' = [Op("call", c, "", callable, kwargs) EXCEPT
                     !.st = IF ps.st = "ok" THEN Invoke(target, ps.bound) ELSE ps.st,
                     !.log = ps.h.log, !.bound = ps.bound, !.engine = ps.engine,
                     !.param = ps.param, !.invoked = (ps.st = "ok")]
    /\ UNCHANGED <<store, bindings, checking, live, origin, nbinds, avars>>

\* The caller drops the result it holds.
Drop ==
    /\ Holding
    /\ last' = Op("idle", last.c, "", NoTarget, <<>>)
    /\ UNCHANGED <<store, bindings, checking, live, origin, nbinds, avars>>

\* Injector._is_type_compatible, applied to the value and the expected
\* type at hand.
IsTypeCompatibleOp ==
    /\ last.op = "input"
    /\ last' = [last EXCEPT !.op = "_is_type_compatible",
                            !.compatible = IsTypeCompatible(last.val, last.key)]
    /\ UNCHANGED <<store, bindings, checking, live, origin, nbinds, avars>>

\* A snapshot that stores a copy of each bound instance.
SnapshotValue_Clone(value) ==
    IF value.kind = "obj" THEN [value EXCEPT !.id = @ + 10] ELSE value

\* injector.set(key, value): what the child's store holds for an entry of
\* the parent, the value itself.
SnapshotValue(value) == value

\* A child that keeps a reference to its parent's dict.
NewDict_Shared(parent) == parent

\* Injector(self._enable_type_checking): the new container's own dict.
NewDict(parent) == "d_child"

\* Injector.create_child: a new container with the parent's flag and a
\* copy of each of its entries.
CreateChild ==
    /\ "child" \notin live /\ ~Holding
    /\ live' = live \cup {"child"}
    /\ checking' = [checking EXCEPT !["child"] = checking["root"]]
    /\ store' = [store EXCEPT !["child"] = NewDict(store["root"])]
    /\ bindings' = [bindings EXCEPT ![store'["child"]] =
                       [k \in Keys |-> SnapshotValue(Items("root")[k])]]
    /\ origin' = [origin EXCEPT ![store'["child"]] = origin[store["root"]]]
    /\ last' = Op("create_child", "root", "", NoTarget, <<>>)
    /\ UNCHANGED <<nbinds, avars>>

(***************************************************************************)
(* AsyncCaller.call on the event loop: the tasks that await call, step by  *)
(* step, and the worker threads asyncio.to_thread hands the synchronous    *)
(* targets to.                                                             *)
(***************************************************************************)
\* The worker threads of the loop's default executor.
PoolSize == 2
Workers == 1..PoolSize
Tasks == {"t1", "t2", "t3", "t4"}

\* def build(a: A, clock: FixedClock)
build == Function("build", <<Param("a", "A", TRUE), Param("clock", "FixedClock", TRUE)>>)
\* def work(clock: Clock, name: str = ...)
work == Function("work", <<Param("clock", "Clock", TRUE), Param("name", "str", FALSE)>>)
\* async def poll(a: A, clock: FixedClock)
poll == Function("poll", <<Param("a", "A", TRUE), Param("clock", "FixedClock", TRUE)>>)

\* The functions defined with async def.
CoroutineFunctions == {"poll"}

\* What each task passes to call.
CallableOf(t) ==
    CASE t = "t1" -> build
      [] t = "t2" -> work
      [] t = "t3" -> work
      [] t = "t4" -> poll

\* A dispatch that awaits every target directly.
IsCoroutineFunction_Always(method) == TRUE

\* inspect.iscoroutinefunction(method)
IsCoroutineFunction(method) == method.name \in CoroutineFunctions

\* What the target of task t returns.
Ret(t) == <<"result", t>>
NoResult == <<"none", "">>

\* A task that has not called yet.
NewTask ==
    [pc |-> "new", nres |-> 0, bound |-> <<>>, log |-> <<>>, thread |-> "none",
     ranOn |-> "none", effect |-> FALSE, produced |-> NoResult, result |-> NoResult]

\* call has ended for the task: the bound arguments are discarded.
Returned(tk, pc, result) ==
    [tk EXCEPT !.pc = pc, !.result = result, !.bound = <<>>, !.log = <<>>]

\* The identities the calls in flight hold.
TaskIds == UNION {IdsIn(task[t].bound) : t \in Tasks}

\* The task starts to run call on the event loop: the target is chosen.
Begin(t) ==
    /\ loop = "none" /\ task[t].pc = "new"
    /\ task' = [task EXCEPT ![t].pc = "resolving"]
    /\ loop' = t
    /\ UNCHANGED <<store, bindings, checking, live, origin, nbinds, last, queue, worker>>

\* A resolution that gives the loop away.
AfterResolve_Yields(t) == "none"

\* The loop's holder after one parameter of t's target is resolved:
\* _resolve_params has no await.
AfterResolve(t) == t

\* resolve_params, one parameter of the signature: the next one, resolved
\* with its constructors, depth-first.
ResolveParam(t) ==
    /\ loop = t /\ task[t].pc = "resolving"
    /\ LET target == Normalize(CallableOf(t))
           i == task[t].nres + 1
       IN /\ i <= Len(target.params)
          /\ LET upto == [target EXCEPT !.params = SubSeq(@, 1, i)]
                 ps == ResolveParamsFrom(Inj("root"), upto, i, <<>>, <<>>, task[t].bound, {},
                                         Heap(LiveIds \cup TaskIds, task[t].log), 0)
             IN IF ps.st = "ok"
                THEN /\ task' = [task EXCEPT ![t].nres = i, ![t].bound = ps.bound,
                                             ![t].log = ps.h.log]
                     /\ loop' = AfterResolve(t)
                ELSE /\ task' = [task EXCEPT ![t].pc = "failed", ![t].log = ps.h.log]
                     /\ loop' = "none"
    /\ UNCHANGED <<store, bindings, checking, live, origin, nbinds, last, queue, worker>>

\* An offload that keeps the loop until the thread is done.
AfterSubmit_Blocks(t) == t

\* The loop's holder after await asyncio.to_thread(...) is reached: the
\* task is suspended on the future.
AfterSubmit(t) == "none"

\* _call, once every parameter is resolved: a coroutine function starts to
\* run on the loop; any other target is submitted to the executor.
Dispatch(t) ==
    /\ loop = t /\ task[t].pc = "resolving"
    /\ task[t].nres = Len(Normalize(CallableOf(t)).params)
    /\ IF IsCoroutineFunction(Normalize(CallableOf(t)))
       THEN /\ task' = [task EXCEPT ![t].pc = "onloop", ![t].ranOn = "loop"]
            /\ UNCHANGED <<loop, queue>>
       ELSE /\ task' = [task EXCEPT ![t].pc = "awaiting", ![t].thread = "queued"]
            /\ queue' = Append(queue, t)
            /\ loop' = AfterSubmit(t)
    /\ UNCHANGED <<store, bindings, checking, live, origin, nbinds, last, worker>>

\* The target running on the loop reaches an await of its own.
AwaitInside(t) ==
    /\ loop = t /\ task[t].pc = "onloop"
    /\ task' = [task EXCEPT ![t].pc = "suspended"]
    /\ loop' = "none"
    /\ UNCHANGED <<store, bindings, checking, live, origin, nbinds, last, queue, worker>>

\* The loop resumes the target, which runs to its end; call returns what
\* it returned.
Finish(t) ==
    /\ loop = "none" /\ task[t].pc = "suspended"
    /\ task' = [task EXCEPT ![t] = Returned([@ EXCEPT !.effect = TRUE, !.produced = Ret(t)],
                                            "done", Ret(t))]
    /\ UNCHANGED <<store, bindings, checking, live, origin, nbinds, last, loop, queue, worker>>

\* An idle worker thread takes the oldest work item and starts the target.
Take(w) ==
    /\ worker[w] = "none" /\ queue # <<>>
    /\ worker' = [worker EXCEPT ![w] = Head(queue)]
    /\ queue' = Tail(queue)
    /\ task' = [task EXCEPT ![Head(queue)].thread = "running",
                            ![Head(queue)].ranOn = "worker"]
    /\ UNCHANGED <<store, bindings, checking, live, origin, nbinds, last, loop>>

\* The target returns on its worker thread: the future gets its result.
Run(w) ==
    /\ worker[w] # "none"
    /\ task' = [task EXCEPT ![worker[w]].thread = "finished", ![worker[w]].effect = TRUE,
                            ![worker[w]].produced = Ret(worker[w])]
    /\ worker' = [worker EXCEPT ![w] = "none"]
    /\ UNCHANGED <<store, bindings, checking, live, origin, nbinds, last, loop, queue>>

\* The loop resumes the task whose future is done: call returns the
\* target's result.
Resume(t) ==
    /\ loop = "none" /\ task[t].pc = "awaiting" /\ task[t].thread = "finished"
    /\ task' = [task EXCEPT ![t] = Returned(@, "done", @.produced)]
    /\ UNCHANGED <<store, bindings, checking, live, origin, nbinds, last, loop, queue, worker>>

\* A cancellation that stops the thread.
ThreadAfterCancel_Killed(running) == "none"

\* What a worker thread runs after the task that awaits it is cancelled:
\* Future.cancel() of a running work item fails, the thread goes on.
ThreadAfterCancel(running) == running

\* The queue without the work item of t.
Without(q, t) == SelectSeq(q, LAMBDA x : x # t)

\* The task that awaits call is cancelled while it is suspended.  A work
\* item that no thread has started is withdrawn, unless a thread takes it
\* before the cancellation reaches the executor's future.
Cancel(t) ==
    /\ loop = "none" /\ task[t].pc \in {"awaiting", "suspended"}
    /\ \E withdrawn \in BOOLEAN :
          IF task[t].thread = "queued" /\ withdrawn
          THEN /\ task' = [task EXCEPT ![t] = Returned([@ EXCEPT !.thread = "none"],
                                                       "cancelled", NoResult)]
               /\ queue' = Without(queue, t)
               /\ UNCHANGED worker
          ELSE /\ task' = [task EXCEPT ![t] = Returned(@, "cancelled", NoResult)]
               /\ worker' = [w \in Workers |->
                                IF worker[w] = t THEN ThreadAfterCancel(t) ELSE worker[w]]
               /\ UNCHANGED queue
    /\ UNCHANGED <<store, bindings, checking, live, origin, nbinds, last, loop>>

(***************************************************************************)
(* The operations' arguments                                               *)
(***************************************************************************)
BindChoices ==
    { <<"Clock", TypeV("FixedClock")>>, <<"Clock", fixedClock0>>,
      <<"A", TypeV("B")>>, <<"B", TypeV("A")>>, <<"A", TypeV("A")>> }

SingletonChoices ==
    { <<"Clock", <<>> >>, <<"FixedClock", <<>> >>, <<"A", <<>> >>,
      <<"Named", [name |-> text0]>> }

\* abstract, concrete, overrides
InstanceOfChoices ==
    { <<"Clock", "FixedClock", <<>> >>, <<"Clock", "Clock", <<>> >>,
      <<"str", "FixedClock", <<>> >> }

ResolveChoices ==
    { <<k, <<>> >> : k \in Keys \cup Unions }
    \cup { <<"Svc", [clock |-> fixedClock0]>>, <<"Svc", [name |-> fixedClock0]>>,
           <<"Named", [name |-> text0]>> }

CallChoices ==
    { <<use_clock, <<>> >>, <<use_clock, [clock |-> fixedClock0]>>,
      <<use_clock, [clock |-> text0]>>,
      <<greet, <<>> >>, <<greet, [name |-> text0]>>, <<greet, [name |-> fixedClock0]>>,
      <<Partial(use_clock, [clock |-> fixedClock0]), <<>> >>,
      <<Partial(greet, [name |-> text0]), <<>> >>,
      <<describe, <<>> >> }

\* What the two-container runs bind and resolve.
ChildBindChoices == { <<"Clock", TypeV("FixedClock")>>, <<"Clock", fixedClock0>> }
ChildResolveChoices == { <<"Clock", <<>> >>, <<"FixedClock", <<>> >> }

\* What the runs of the sibling graph bind, resolve and call: bindings
\* whose value is not of the key's type among them.
GraphBindChoices ==
    { <<"Clock", text0>>, <<"Clock", TypeV("Left")>>, <<"Clock", fixedClock0>>,
      <<"FixedClock", text0>> }
GraphResolveChoices ==
    { <<"Top", <<>> >>, <<"Top", [clock |-> fixedClock0]>>,
      <<"Left", <<>> >>, <<"Left", [clock |-> fixedClock0]>>,
      <<"Left", [clock |-> text0]>>,
      <<"Clock", <<>> >>, <<"Clock", [clock |-> fixedClock0]>>,
      <<"str|Left", [clock |-> fixedClock0]>>,
      <<"Svc", <<>> >>, <<"Clock|FixedClock", <<>> >> }
GraphCallChoices ==
    { <<use_clock, <<>> >>, <<use_clock, [extra |-> text0]>>,
      <<pair, <<>> >>,
      <<render, <<>> >>, <<render, [extra |-> text0]>>,
      <<render, [name |-> text0, extra |-> fixedClock0]>> }

\* The values and the expected types a validation is given.
CompatValues ==
    { NoneV, fixedClock0, text0, Obj(3, "bool", NoArgs), Obj(4, "int", NoArgs),
      Obj(5, "Left", [clock |-> fixedClock0]), Obj(6, "list", NoArgs) }
CompatTypes ==
    { NoHint, "Any", "NoneType", "str", "int", "bool", "Clock", "FixedClock", "Left",
      "Greeter", "list[int]" } \cup Unions \cup GraphUnions

\* What the runs that watch the store bind, resolve and call: alias chains
\* and cycles, and requests that fail in each way.
FrameBindChoices ==
    { <<"A", TypeV("B")>>, <<"B", TypeV("A")>>, <<"A", TypeV("A")>>,
      <<"Clock", TypeV("FixedClock")>>, <<"Clock", text0>> }
FrameSingletonChoices == { <<"Svc", <<>> >>, <<"A", <<>> >>, <<"str", <<>> >> }
FrameInstanceOfChoices == { <<"Clock", "Svc", <<>> >>, <<"B", "A", <<>> >> }
FrameResolveChoices == { <<"A", <<>> >>, <<"Svc", <<>> >>, <<"Clock", <<>> >> }
FrameCallChoices == { <<use_clock, <<>> >>, <<greet, [name |-> fixedClock0]>> }
FrameClassChoices == {"A", "B", "Clock", "Svc"}

\* No call has been made: every task is new, the loop and the workers idle.
NoCalls ==
    /\ task = [t \in Tasks |-> NewTask]
    /\ loop = "none"
    /\ queue = <<>>
    /\ worker = [w \in Workers |-> "none"]

Init ==
    /\ store = [c \in Containers |-> IF c = "root" THEN "d_root" ELSE "d_child"]
    /\ bindings = [d \in Dicts |-> Empty]
    /\ checking \in {[c \in Containers |-> IF c = "root" THEN b ELSE TRUE] : b \in BOOLEAN}
    /\ live = {"root"}
    /\ origin = [d \in Dicts |-> [k \in Keys |-> "none"]]
    /\ nbinds = 0
    /\ last = Op("init", "root", "", NoTarget, <<>>)
    /\ NoCalls

\* One container, configured and used.
Next ==
    \/ \E b \in BindChoices : Bind("root", b[1], b[2])
    \/ \E x \in Pool : BindInstance("root", x)
    \/ \E b \in SingletonChoices : BindSingleton("root", b[1], b[2])
    \/ \E r \in ResolveChoices : ResolveOp("root", r[1], r[2])
    \/ \E r \in CallChoices : ResolveParamsOp("root", r[1], r[2])
    \/ \E r \in CallChoices : Call("root", r[1], r[2])
    \/ Drop

Spec == Init /\ [][Next]_vars

\* A container and the child created from it.
NextChild ==
    \/ CreateChild
    \/ \E c \in Containers, b \in ChildBindChoices : Bind(c, b[1], b[2])
    \/ \E c \in Containers, x \in Pool : BindInstance(c, x)
    \/ \E c \in Containers : BindSingleton(c, "FixedClock", <<>>)
    \/ \E c \in Containers, r \in ChildResolveChoices : ResolveOp(c, r[1], r[2])
    \/ Drop

SpecChild == Init /\ [][NextChild]_vars

\* What the runs of the binding operations register and resolve.
StoreChoices ==
    { <<"Clock", TypeV("FixedClock")>>, <<"Clock", fixedClock0>>,
      <<"FixedClock", fixedClock0>>, <<"str", text0>> }
StoreResolveChoices == {"Clock", "FixedClock", "str"}

\* The binding operations of one container, and what resolves afterwards.
NextBinding ==
    \/ \E b \in StoreChoices : Add("root", b[1], b[2])
    \/ \E b \in StoreChoices : Set("root", b[1], b[2])
    \/ \E b \in StoreChoices : Bind("root", b[1], b[2])
    \/ \E b \in InstanceOfChoices : BindToInstanceOf("root", b[1], b[2], b[3])
    \/ \E k \in StoreResolveChoices : ResolveOp("root", k, <<>>)
    \/ Drop

SpecBinding == Init /\ [][NextBinding]_vars

\* One container whose classes share dependencies and whose bindings may
\* hold values of another type than their key.
NextGraph ==
    \/ \E b \in GraphBindChoices : Bind("root", b[1], b[2])
    \/ \E r \in GraphResolveChoices : ResolveOp("root", r[1], r[2])
    \/ \E r \in GraphCallChoices : ResolveParamsOp("root", r[1], r[2])
    \/ \E r \in GraphCallChoices : Call("root", r[1], r[2])
    \/ Drop

SpecGraph == Init /\ [][NextGraph]_vars

\* A container that is about to check a value against an expected type.
InitCompat ==
    /\ store = [c \in Containers |-> IF c = "root" THEN "d_root" ELSE "d_child"]
    /\ bindings = [d \in Dicts |-> Empty]
    /\ checking = [c \in Containers |-> TRUE]
    /\ live = {"root"}
    /\ origin = [d \in Dicts |-> [k \in Keys |-> "none"]]
    /\ nbinds = 0
    /\ \E v \in CompatValues, t \in CompatTypes :
          last = [Op("input", "root", t, NoTarget, <<>>) EXCEPT !.val = v]
    /\ NoCalls

NextCompat == IsTypeCompatibleOp

SpecCompat == InitCompat /\ [][NextCompat]_vars

\* One container: the operations that register and the operations that
\* only read.
NextFrame ==
    \/ \E b \in FrameBindChoices : Bind("root", b[1], b[2])
    \/ \E b \in FrameSingletonChoices : BindSingleton("root", b[1], b[2])
    \/ \E b \in FrameInstanceOfChoices : BindToInstanceOf("root", b[1], b[2], b[3])
    \/ \E r \in FrameResolveChoices : ResolveOp("root", r[1], r[2])
    \/ \E r \in FrameCallChoices : ResolveParamsOp("root", r[1], r[2])
    \/ \E r \in FrameCallChoices : Call("root", r[1], r[2])
    \/ \E k \in FrameClassChoices : ResolveClassOp("root", k)
    \/ Drop

SpecFrame == Init /\ [][NextFrame]_vars

\* The container the concurrent calls use: Clock is bound to an instance,
\* configured before the calls begin.
InitAsync ==
    /\ store = [c \in Containers |-> IF c = "root" THEN "d_root" ELSE "d_child"]
    /\ bindings = [d \in Dicts |->
                     IF d = "d_root" THEN [Empty EXCEPT !["Clock"] = fixedClock0]
                     ELSE Empty]
    /\ checking = [c \in Containers |-> TRUE]
    /\ live = {"root"}
    /\ origin = [d \in Dicts |->
                   IF d = "d_root" THEN [[k \in Keys |-> "none"] EXCEPT !["Clock"] = "bind"]
                   ELSE [k \in Keys |-> "none"]]
    /\ nbinds = 1
    /\ last = Op("bind", "root", "Clock", NoTarget, <<>>)
    /\ NoCalls

\* Concurrent calls on one event loop and its executor.
NextAsync ==
    \/ \E t \in Tasks : Begin(t)
    \/ \E t \in Tasks : ResolveParam(t)
    \/ \E t \in Tasks : Dispatch(t)
    \/ \E t \in Tasks : AwaitInside(t)
    \/ \E t \in Tasks : Finish(t)
    \/ \E w \in Workers : Take(w)
    \/ \E w \in Workers : Run(w)
    \/ \E t \in Tasks : Resume(t)
    \/ \E t \in Tasks : Cancel(t)

SpecAsync == InitAsync /\ [][NextAsync]_vars

\* A thread that runs a target goes on running it: the target returns.
SpecAsyncFair == SpecAsync /\ \A w \in Workers : WF_vars(Run(w))

(***************************************************************************)
(* Properties                                                              *)
(***************************************************************************)
LastResolve == last.op = "resolve" /\ last.key \in Keys
LastItem == Items(last.c)[last.key]

\* C1, as stated: for every instance x, after bind_instance(x) and until
\* type(x) is rebound, resolve(type(x)) returns x itself.
C1_BoundInstanceResolvesToItself ==
    (LastResolve /\ WriterOf(last.c, last.key) = "bind_instance")
        => (last.st = "ok" /\ last.val = LastItem)

\* C1, amended: the same for every instance x whose type is not one the
\* engine short-circuits (str, int, bool, float, NoneType).
C1_BoundInstanceResolvesToItself_Amended ==
    (LastResolve /\ WriterOf(last.c, last.key) = "bind_instance"
       /\ last.key \notin Primitives \cup {"NoneType"})
        => (last.st = "ok" /\ last.val = LastItem /\ last.val.cls = last.key)

C1_Witness ==
    /\ LastResolve /\ last.key = "FixedClock"
    /\ WriterOf(last.c, "FixedClock") = "bind_instance"
    /\ \E k \in Keys \ {"FixedClock"} : Items(last.c)[k] # NoneV
    /\ last.st = "ok" /\ last.val = fixedClock0

\* C2: after a successful bind_singleton(A) and until A is rebound, every
\* resolve(A) returns the instance bind_singleton produced and stored, and
\* invokes no constructor.
C2_SingletonResolvesToSameInstance ==
    /\ (last.op = "bind_singleton" /\ last.st = "ok")
          => (LastItem = last.val /\ last.val.kind = "obj")
    /\ (LastResolve /\ WriterOf(last.c, last.key) = "bind_singleton")
          => (last.st = "ok" /\ last.val = LastItem /\ last.log = <<>>)

C2_Witness ==
    /\ LastResolve /\ last.key = "Clock"
    /\ WriterOf(last.c, "Clock") = "bind_singleton"
    /\ last.st = "ok" /\ last.val.cls = "FixedClock" /\ last.val # fixedClock0

\* A is bound to the class B, B has no binding, no constructor parameter
\* and can be instantiated.
AliasOfPlainClass(c, key) ==
    /\ key \in Keys /\ IsAlias(Items(c)[key])
    /\ LET b == Items(c)[key].name IN
         /\ b \in UserClasses \ AbstractClasses /\ b # key
         /\ InitParams(b) = <<>> /\ Items(c)[b] = NoneV

\* A resolve through such an alias constructs: one constructor call, a new
\* object that no binding and no caller held before.
C3_EachResolveConstructs ==
    (LastResolve /\ AliasOfPlainClass(last.c, last.key)) =>
        /\ last.st = "ok" /\ last.val.kind = "obj"
        /\ last.val.cls = LastItem.name
        /\ last.log = <<[cls |-> LastItem.name, args |-> <<>>, st |-> "ok"]>>
        /\ last.val.id \notin PoolIds \cup BoundIds

\* The repeated resolve returns another object than the one still held.
C3_TwoResolvesDiffer ==
    (Holding /\ LastResolve /\ last'.op = "resolve" /\ AliasOfPlainClass(last.c, last.key))
        => (last'.st = "ok" /\ last'.val # last.val)

\* C3: for an alias bind(A, B) with B constructible, without dependencies
\* and unbound, every resolve(A) invokes B's constructor and returns a new
\* B, distinct from the one the previous resolve(A) returned.
C3_AliasIsNotCached == []C3_EachResolveConstructs /\ [][C3_TwoResolvesDiffer]_vars

C3_Witness ==
    /\ LastResolve /\ last.key = "Clock" /\ AliasOfPlainClass(last.c, "Clock")
    /\ last.st = "ok" /\ last.val.cls = "FixedClock" /\ last.val.id = 4

\* C4: with A(b: B) and B(a: A) both unbound, resolve(A) and resolve(B)
\* end without unbounded recursion: the inner constructor is invoked with
\* its cyclic parameter left out.
C4_ConstructorCycleTerminates ==
    (LastResolve /\ last.key \in {"A", "B"} /\ last.kwargs = <<>>
       /\ Items(last.c)["A"] = NoneV /\ Items(last.c)["B"] = NoneV) =>
        /\ last.st # "RecursionError"
        /\ last.key = "A" =>
              /\ last.st = "ok" /\ Len(last.log) = 2
              /\ last.log[1] = [cls |-> "B", args |-> <<>>, st |-> "ok"]
              /\ last.log[2].cls = "A" /\ last.log[2].args.b.cls = "B"
              /\ last.val.cls = "A"
        /\ last.key = "B" =>
              /\ last.st = "TypeError"
              /\ last.log = <<[cls |-> "A", args |-> <<>>, st |-> "TypeError"]>>

C4_Witness ==
    /\ LastResolve /\ last.key = "A" /\ last.st = "ok"
    /\ Items(last.c)["A"] = NoneV /\ Items(last.c)["B"] = NoneV
    /\ "a" \notin DOMAIN last.val.args.b.args

\* One step of the two containers: the snapshot, and the frame of a bind.
C5_Step ==
    /\ ("child" \notin live /\ "child" \in live')
          => \A k \in Keys : bindings'[store'["child"]][k] = bindings[store["root"]][k]
    /\ ("child" \in live /\ nbinds' = nbinds + 1) =>
          /\ last'.c = "child" => bindings'[store'["root"]] = bindings[store["root"]]
          /\ last'.c = "root" => bindings'[store'["child"]] = bindings[store["child"]]

\* C5: create_child copies every binding of the parent into the child;
\* afterwards a binding operation on one of the two containers leaves the
\* other one's bindings as they were, in any interleaving.
C5_ChildIsolation == [][C5_Step]_vars

C5_Witness ==
    /\ "child" \in live
    /\ \E k \in Keys : Items("root")[k] # NoneV /\ Items("child")[k] = Items("root")[k]
    /\ \E k \in Keys : Items("root")[k] # NoneV /\ Items("child")[k] = NoneV
    /\ \E k \in Keys : Items("child")[k] # NoneV /\ Items("root")[k] = NoneV

\* C6, as stated: resolve returns an instance or fails with
\* ResolutionError (TypeMismatchError being the other documented error);
\* no other failure reaches the caller and None is never returned.
C6_ResolveFailsWithResolutionError ==
    last.op = "resolve" =>
        \/ last.st = "ok" /\ last.val.kind = "obj"
        \/ last.st \in {"ResolutionError", "TypeMismatchError"}

\* The declared parameters of the called target whose override is not
\* compatible with the annotation.
LastParams == Normalize(last.target).params
Mismatched ==
    {i \in DOMAIN LastParams :
        /\ LastParams[i].name \in DOMAIN last.kwargs
        /\ LastParams[i].hint # NoHint
        /\ ~IsTypeCompatible(last.kwargs[LastParams[i].name], LastParams[i].hint)}

\* C7: call with an override of the wrong type raises TypeMismatchError
\* and does not invoke the target when validation is enabled; with
\* validation disabled it invokes the target with the override, and no
\* operation of such a container raises TypeMismatchError.
C7_ValidationSwitch ==
    /\ (last.op = "call" /\ Mismatched # {}) =>
          IF checking[last.c]
          THEN last.st = "TypeMismatchError" /\ ~last.invoked
          ELSE /\ last.st # "TypeMismatchError" /\ last.invoked
               /\ \A i \in Mismatched :
                     last.bound[LastParams[i].name] = last.kwargs[LastParams[i].name]
    /\ ~checking[last.c] => last.st # "TypeMismatchError"

C7_Witness ==
    /\ last.op = "call" /\ checking[last.c]
    /\ last.target = use_clock /\ last.kwargs = [clock |-> text0]
    /\ last.st = "TypeMismatchError" /\ ~last.invoked

\* The parameters of the called function whose type is a class bound to
\* one of its instances, with no override.
InjectedFromInstance ==
    {i \in DOMAIN LastParams :
        /\ LastParams[i].name \notin DOMAIN last.kwargs
        /\ LastParams[i].hint \in Keys \ Primitives
        /\ Items(last.c)[LastParams[i].hint].kind = "obj"
        /\ IsInstance(Items(last.c)[LastParams[i].hint], LastParams[i].hint)}

Overridden == {i \in DOMAIN LastParams : LastParams[i].name \in DOMAIN last.kwargs}

\* C10: for every declared parameter with an override, the bound arguments
\* hold the override and the parameter's type is not resolved: no lookup,
\* no constructor call, whatever the bindings are.
C10_OverridesWin ==
    /\ (last.op \in {"resolve_params", "call"} /\ last.target.kind = "function") =>
          /\ \A i \in Overridden :
                /\ LastParams[i].name \notin last.engine
                /\ (last.st = "ok" \/ last.invoked) =>
                      /\ LastParams[i].name \in DOMAIN last.bound
                      /\ last.bound[LastParams[i].name] = last.kwargs[LastParams[i].name]
          /\ Overridden = DOMAIN LastParams => last.log = <<>>
    /\ (LastResolve /\ LastItem = NoneV /\ last.st = "ok") =>
          \A i \in DOMAIN InitParams(last.key) :
              LET n == InitParams(last.key)[i].name IN
              n \in DOMAIN last.kwargs =>
                  /\ last.val.args[n] = last.kwargs[n]
                  /\ \A j \in DOMAIN last.log :
                        last.log[j].cls # InitParams(last.key)[i].hint

C10_Witness ==
    /\ last.op = "call" /\ last.target = use_clock
    /\ last.kwargs = [clock |-> fixedClock0]
    /\ Items(last.c)["Clock"] = TypeV("FixedClock")
    /\ last.invoked /\ last.bound = [clock |-> fixedClock0] /\ last.log = <<>>

\* What candidate i of the union t resolves to when it is resolved alone,
\* in the state the request is made in.
Candidate(c, t, i, kwargs) ==
    ResolveType(Inj(c), UnionArgs(t)[i], <<>>, kwargs, Heap0, 1)

\* A resolve of a union: the outcome is that of the first candidate, in
\* declaration order, that does not resolve to None, and the constructor
\* calls are those of that candidate alone; with no such candidate nothing
\* is constructed and resolve reports the None.
C11_Step ==
    (last'.op = "resolve" /\ last'.key \in Unions) =>
        LET t == last'.key
            won == {i \in DOMAIN UnionArgs(t) :
                       Candidate(last'.c, t, i, last'.kwargs).st # "absent"}
        IN IF won = {}
           THEN last'.st = "ResolutionError" /\ last'.val = NoneV /\ last'.log = <<>>
           ELSE LET first == CHOOSE i \in won : \A j \in won : i <= j
                    r == Candidate(last'.c, t, first, last'.kwargs)
                IN last'.st = r.st /\ last'.val = r.val /\ last'.log = r.h.log

\* A parameter annotated with a union whose candidates all resolve to None
\* is left out of the bound arguments; the resolution does not raise.
C11_AllAbsent ==
    (last.op \in {"resolve_params", "call"} /\ last.target.kind = "function"
       /\ last.kwargs = <<>>) =>
        \A i \in DOMAIN last.target.params :
            last.target.params[i].hint = "str|None" =>
                /\ last.target.params[i].name \in last.engine
                /\ last.target.params[i].name \notin DOMAIN last.bound
                /\ last.st # "ResolutionError"
                /\ last.op = "resolve_params" => last.st = "ok"

\* C11: a union resolves to the result of its first candidate, in
\* declaration order, that is not absent; the later candidates are not
\* attempted; when every candidate is absent the union is absent and
\* nothing is raised by the resolution of the union.
C11_UnionFirstSuccessWins == []C11_AllAbsent /\ [][C11_Step]_vars

C11_Witness ==
    /\ last.op = "resolve" /\ last.key = "FixedClock|B"
    /\ Items(last.c)["FixedClock"] = NoneV /\ Items(last.c)["B"] = NoneV
    /\ last.st = "ok" /\ last.val.cls = "FixedClock"
    /\ last.log = <<[cls |-> "FixedClock", args |-> <<>>, st |-> "ok"]>>

\* The types the claim names: no type requested, the primitive scalars,
\* Any, and a generic container.
SkippedTypes == {NoHint, "str", "int", "bool", "float", "Any", "list[int]"}

\* C12: a type that is not requested, a primitive scalar, Any or a generic
\* container resolves to absent, without an exception of the resolution
\* and without a constructor call, whatever the bindings are (a binding of
\* str included): at top level resolve reports ResolutionError, a parameter
\* of such a type is left out of the bound arguments, and a constructed
\* object has such a parameter only from an override.
C12_ShortCircuit ==
    /\ \A j \in DOMAIN last.log : last.log[j].cls \notin SkippedTypes
    /\ (last.op = "resolve" /\ last.key \in SkippedTypes) =>
          (last.st = "ResolutionError" /\ last.val = NoneV /\ last.log = <<>>)
    /\ (last.op \in {"resolve_params", "call"} /\ last.target.kind = "function") =>
          \A i \in DOMAIN last.target.params :
              LET p == last.target.params[i] IN
              (p.hint \in SkippedTypes /\ p.name \notin DOMAIN last.kwargs) =>
                  /\ p.name \notin DOMAIN last.bound
                  /\ last.st \notin {"ResolutionError", "TypeMismatchError"}
                  /\ (last.st = "ok" \/ last.invoked) => p.name \in last.engine
    /\ \A j \in DOMAIN last.log :
          \A i \in DOMAIN InitParams(last.log[j].cls) :
              LET p == InitParams(last.log[j].cls)[i] IN
              (p.hint \in SkippedTypes /\ p.name \in DOMAIN last.log[j].args)
                  => p.name \in DOMAIN last.kwargs

C12_Witness ==
    /\ last.op = "call" /\ last.target = describe /\ last.kwargs = <<>>
    /\ Items(last.c)["str"] = text0
    /\ last.invoked /\ last.bound = <<>> /\ last.log = <<>>
    /\ last.engine = {"text", "count", "anything", "items", "raw", "note"}

\* The type resolves to None in container c.
AbsentType(c, hint) == ResolveType(Inj(c), hint, <<>>, <<>>, Heap0, 1).st = "absent"

\* The parameters of the target, without an override, whose type resolves
\* to None.
AbsentParams ==
    {i \in DOMAIN LastParams :
        /\ LastParams[i].name \notin DOMAIN last.kwargs
        /\ AbsentType(last.c, LastParams[i].hint)}

\* The parameters without a default that are not among the arguments.
Unsupplied(params, args) ==
    {i \in DOMAIN params : params[i].required /\ params[i].name \notin DOMAIN args}

\* C13: a parameter whose type resolves to absent is left out of the
\* bound arguments, for resolve_params, call and a constructor alike; the
\* resolution itself succeeds (never ResolutionError), and when the
\* parameter has no default the invocation of the target, or of the
\* constructor, fails with the TypeError of a missing argument.
C13_AbsentParameterIsOmitted ==
    /\ (last.op \in {"resolve_params", "call"} /\ last.target.kind = "function"
          /\ AbsentParams # {}) =>
          /\ last.st # "ResolutionError"
          /\ (last.st = "ok" \/ last.invoked) =>
                \A i \in AbsentParams : LastParams[i].name \notin DOMAIN last.bound
          /\ (AbsentParams = DOMAIN LastParams) =>
                /\ last.op = "resolve_params" => last.st = "ok"
                /\ last.op = "call" =>
                      /\ last.invoked
                      /\ last.st = IF Unsupplied(LastParams, last.bound) # {}
                                   THEN "TypeError" ELSE "ok"
    /\ \A j \in DOMAIN last.log :
          LET e == last.log[j] IN
          /\ Unsupplied(InitParams(e.cls), e.args) # {} => e.st = "TypeError"
          /\ (Unsupplied(InitParams(e.cls), e.args) = {} /\ e.cls \notin AbstractClasses)
                => e.st = "ok"
          /\ (e.st = "TypeError" /\ last.op = "resolve") => last.st = "TypeError"

C13_Witness ==
    /\ last.op = "call" /\ last.target = describe
    /\ "text" \in last.engine /\ "text" \notin DOMAIN last.bound
    /\ last.invoked /\ last.st = "TypeError"

\* Following the alias bindings from key leads back to a key already met.
RECURSIVE AliasLoops(_, _, _)
AliasLoops(c, key, seen) ==
    LET v == Items(c)[key] IN
    /\ IsAlias(v)
    /\ \/ v.name \in seen \cup {key}
       \/ v.name \in Keys /\ AliasLoops(c, v.name, seen \cup {key})

\* C20: when the alias bindings reachable from A form a cycle (A to B and
\* B to A, or A to A), resolve(A) ends, invokes no constructor and raises
\* ResolutionError.
C20_AliasCycleFails ==
    (LastResolve /\ AliasLoops(last.c, last.key, {})) =>
        (last.st = "ResolutionError" /\ last.val = NoneV /\ last.log = <<>>)

C20_Witness ==
    /\ LastResolve /\ last.key = "A"
    /\ Items(last.c)["A"] = TypeV("B") /\ Items(last.c)["B"] = TypeV("A")
    /\ last.st = "ResolutionError" /\ last.log = <<>>

\* C18, as stated: after a successful bind_to_instance_of(A, C) the key A
\* holds the instance resolve(C) produced, and every later resolve(A)
\* returns that instance, for every key A.
C18_BoundToInstanceOf ==
    /\ (last.op = "bind_to_instance_of" /\ last.st = "ok") =>
          (LastItem = last.val /\ last.val.kind = "obj")
    /\ (LastResolve /\ WriterOf(last.c, last.key) = "bind_to_instance_of") =>
          (last.st = "ok" /\ last.val = LastItem /\ last.log = <<>>)

\* The same for every key A that the engine does not short-circuit.
C18_ResolvesToBoundInstance ==
    /\ (last.op = "bind_to_instance_of" /\ last.st = "ok") =>
          (LastItem = last.val /\ last.val.kind = "obj")
    /\ (LastResolve /\ WriterOf(last.c, last.key) = "bind_to_instance_of"
          /\ last.key \notin Primitives \cup {"NoneType"}) =>
          (last.st = "ok" /\ last.val = LastItem /\ last.log = <<>>)

\* One bind_to_instance_of(A, C): the instance bound under A is what
\* resolve(C) returns in the state of the call; no other key changes, C's
\* included, and nothing changes when resolve(C) raises.
C18_Step ==
    (last'.op = "bind_to_instance_of" /\ nbinds' = nbinds + 1) =>
        LET c == last'.c
            r == Resolve(Inj(c), last'.concrete, last'.kwargs, Heap0)
        IN /\ last'.st = r.st
           /\ r.st = "ok" =>
                 /\ bindings'[store[c]][last'.key] = r.val
                 /\ \A k \in Keys \ {last'.key} :
                       bindings'[store[c]][k] = bindings[store[c]][k]
           /\ r.st # "ok" => bindings' = bindings
           /\ \A d \in Dicts \ {store[c]} : bindings'[d] = bindings[d]

\* C18, amended: for a key A that is not str, int, bool, float or
\* NoneType, a successful bind_to_instance_of(A, C) binds A to the
\* instance resolve(C) returns at that moment, every later resolve(A)
\* returns that identical instance and constructs nothing, and the
\* bindings of C and of every other key are unchanged.
C18_BoundToInstanceOf_Amended ==
    []C18_ResolvesToBoundInstance /\ [][C18_Step]_vars

C18_Witness ==
    /\ LastResolve /\ last.key = "Clock"
    /\ WriterOf(last.c, "Clock") = "bind_to_instance_of"
    /\ Items(last.c)["FixedClock"] = NoneV
    /\ last.st = "ok" /\ last.val.cls = "FixedClock" /\ last.val = Items(last.c)["Clock"]

\* One add, set or bind of key k: afterwards k holds the value given, the
\* other keys hold what they held, nothing is raised, and a warning is
\* printed exactly when add replaces an existing binding.
C19_Step ==
    (last'.op \in {"add", "set", "bind"} /\ nbinds' = nbinds + 1) =>
        LET d == store[last'.c]
            k == last'.key
        IN /\ last'.st = "ok"
           /\ last'.op \in {"add", "set"} => bindings'[d][k] = last'.val
           /\ bindings'[d][k] # NoneV
           /\ \A j \in Keys \ {k} : bindings'[d][j] = bindings[d][j]
           /\ last'.warned = (last'.op = "add" /\ bindings[d][k] # NoneV)

\* The entries of a container's store.
Entries(c) == {<<k, Items(c)[k]>> : k \in {j \in Keys : Items(c)[j] # NoneV}}

\* A container holds at most one entry per key.
C19_OneBindingPerKey ==
    \A c \in live : \A e1 \in Entries(c), e2 \in Entries(c) : e1[1] = e2[1] => e1 = e2

\* C19: a container holds at most one binding per key, the value
\* registered last; add over an existing key replaces the value and prints
\* a warning without raising, set and bind replace it silently, and the
\* other keys keep their bindings.
C19_LastRegistrationWins == []C19_OneBindingPerKey /\ [][C19_Step]_vars

C19_Witness ==
    /\ last.op = "add" /\ last.warned /\ last.st = "ok"
    /\ LastItem = last.val
    /\ \E k \in Keys \ {last.key} : Items(last.c)[k] # NoneV

\* The target of t's call has its arguments and the call has not ended.
Started(t) == task[t].pc \in {"onloop", "suspended", "awaiting"}

\* What resolve_params gives for t's target when it runs undisturbed.
Expected(t) ==
    ResolveParams(Inj("root"), Normalize(CallableOf(t)), <<>>, <<>>, Heap(LiveIds, <<>>), 0)

\* The classes constructed, in the order of the constructor calls.
ClassesOf(log) == [j \in DOMAIN log |-> log[j].cls]

\* Once the target is started, or has run anywhere, every parameter has
\* been resolved, with the constructor calls of an undisturbed resolution
\* in their depth-first order.
C14_Resolved ==
    \A t \in Tasks :
        /\ (Started(t) \/ task[t].ranOn # "none") =>
              task[t].nres = Len(Normalize(CallableOf(t)).params)
        /\ Started(t) =>
              /\ Expected(t).st = "ok"
              /\ DOMAIN task[t].bound = DOMAIN Expected(t).bound
              /\ \A n \in DOMAIN task[t].bound :
                    task[t].bound[n].cls = Expected(t).bound[n].cls
              /\ ClassesOf(task[t].log) = ClassesOf(Expected(t).h.log)

\* A task that resolves parameters runs on the event loop.
C14_Holder == \A t \in Tasks : task[t].pc = "resolving" => loop = t

\* While a task resolves parameters no other task takes a step.
C14_Step ==
    \A t \in Tasks :
        task[t].pc = "resolving" =>
            \A u \in Tasks \ {t} :
                /\ task'[u].pc = task[u].pc
                /\ task'[u].nres = task[u].nres
                /\ task'[u].result = task[u].result

\* C14: within one call every parameter of the target is resolved, nested
\* constructors included, depth-first and in declared order, before the
\* target starts; between the resolutions of its parameters no other task
\* of the event loop takes a step.
C14_ResolutionBeforeTarget == [](C14_Resolved /\ C14_Holder) /\ [][C14_Step]_vars

C14_Witness ==
    /\ task["t1"].pc = "resolving" /\ task["t1"].nres = 1
    /\ ClassesOf(task["t1"].log) = <<"B", "A">>
    /\ \E w \in Workers : worker[w] = "t2"
    /\ task["t4"].pc = "suspended"

\* C15: a coroutine function runs on the event loop and nowhere else, any
\* other target runs on a worker thread and never on the event loop; call
\* returns only after the target has returned, with the target's result.
C15_Dispatch ==
    \A t \in Tasks :
        /\ task[t].ranOn = "loop" => CallableOf(t).name \in CoroutineFunctions
        /\ task[t].ranOn = "worker" => CallableOf(t).name \notin CoroutineFunctions
        /\ task[t].pc = "onloop" => (loop = t /\ task[t].ranOn = "loop")
        /\ task[t].thread = "running" =>
              (loop # t /\ task[t].ranOn = "worker" /\ \E w \in Workers : worker[w] = t)
        /\ task[t].pc = "done" =>
              /\ task[t].effect /\ task[t].produced = Ret(t)
              /\ task[t].result = task[t].produced
              /\ task[t].ranOn =
                    IF CallableOf(t).name \in CoroutineFunctions THEN "loop" ELSE "worker"
        /\ task[t].result # NoResult => task[t].pc = "done"

C15_Witness ==
    /\ task["t4"].pc = "done" /\ task["t4"].ranOn = "loop" /\ task["t4"].result = Ret("t4")
    /\ task["t2"].pc = "done" /\ task["t2"].ranOn = "worker" /\ task["t2"].result = Ret("t2")

\* C16: while a synchronous target runs on a worker thread the task that
\* awaits it does not hold the event loop, so the loop can start or resume
\* any other task; the targets of concurrent calls run on the worker
\* threads side by side, at most PoolSize of them, and an idle thread can
\* take a waiting one.
C16_NonBlockingOffload ==
    /\ \A w \in Workers :
          worker[w] # "none" =>
              /\ loop # worker[w]
              /\ task[worker[w]].pc \in {"awaiting", "cancelled"}
              /\ task[worker[w]].thread = "running"
    /\ Cardinality({t \in Tasks : task[t].thread = "running"}) <= PoolSize
    /\ \A w1 \in Workers, w2 \in Workers :
          (w1 # w2 /\ worker[w1] # "none") => worker[w1] # worker[w2]
    /\ loop = "none" =>
          \A u \in Tasks :
              /\ task[u].pc = "new" => ENABLED Begin(u)
              /\ task[u].pc = "suspended" => ENABLED Finish(u)
    /\ \A w \in Workers : (worker[w] = "none" /\ queue # <<>>) => ENABLED Take(w)

C16_Witness ==
    /\ \A w \in Workers : worker[w] # "none"
    /\ queue # <<>>
    /\ task["t4"].pc = "suspended"

\* A cancelled call returns nothing.
C17_Cancelled == \A t \in Tasks : task[t].pc = "cancelled" => task[t].result = NoResult

\* The cancellation of a task whose target runs on a worker thread ends
\* the task and leaves the thread running.
C17_Step ==
    \A t \in Tasks :
        (task[t].pc = "awaiting" /\ task[t].thread = "running"
           /\ task'[t].pc = "cancelled") =>
            /\ worker' = worker
            /\ task'[t].thread = "running"
            /\ task'[t].effect = task[t].effect

\* The target of a cancelled call goes on to its end.
C17_Completes ==
    \A t \in Tasks :
        (task[t].pc = "cancelled" /\ task[t].thread = "running")
            ~> (task[t].pc = "cancelled" /\ task[t].thread = "finished" /\ task[t].effect)

\* C17: when the task that awaits call is cancelled while its synchronous
\* target runs on a worker thread, the task ends cancelled and the target
\* is not interrupted: it runs to its end and its side effect happens.
C17_CancelLeavesThreadRunning ==
    []C17_Cancelled /\ [][C17_Step]_vars /\ C17_Completes

C17_Witness ==
    /\ task["t2"].pc = "cancelled" /\ task["t2"].thread = "running"
    /\ \E w \in Workers : worker[w] = "t2"
    /\ ~task["t2"].effect

\* Resolved on its own with the given stack, the parameter's type yields a
\* value that its annotation does not accept.
EngineMismatch(c, p, stack) ==
    /\ p.hint # NoHint
    /\ LET r == ResolveType(Inj(c), p.hint, stack, <<>>, Heap0, 1) IN
         r.st = "ok" /\ ~IsTypeCompatible(r.val, p.hint)

\* The names of the parameters declared before the i-th.
Before(params, i) == {params[j].name : j \in 1..(i - 1)}

\* C21: with validation enabled, a parameter without an override whose
\* type resolves, through a binding or an alias, to a value that is not
\* compatible with its annotation makes resolve_params, call and resolve
\* raise TypeMismatchError for that parameter; the value is not injected
\* and the target or constructor that owns the parameter is not invoked.
C21_EngineValuesAreValidated ==
    /\ (last.op \in {"resolve_params", "call"} /\ last.target.kind = "function"
           /\ checking[last.c]) =>
          \A i \in DOMAIN LastParams :
              (/\ LastParams[i].name \notin DOMAIN last.kwargs
               /\ last.param \notin Before(LastParams, i)
               /\ EngineMismatch(last.c, LastParams[i], <<>>)) =>
                  /\ last.st = "TypeMismatchError" /\ last.param = LastParams[i].name
                  /\ LastParams[i].name \notin DOMAIN last.bound
                  /\ ~last.invoked
    /\ (last.op = "resolve" /\ last.key \in {"Svc", "Left"} /\ checking[last.c]
           /\ Get(Inj(last.c), last.key) = NoneV) =>
          LET p == InitParams(last.key)[1] IN
          (p.name \notin DOMAIN last.kwargs /\ EngineMismatch(last.c, p, <<last.key>>)) =>
              /\ last.st = "TypeMismatchError"
              /\ \A j \in DOMAIN last.log : last.log[j].cls # last.key

C21_Witness ==
    /\ last.op = "call" /\ last.target = use_clock /\ last.kwargs = <<>>
    /\ checking[last.c] /\ Items(last.c)["Clock"] = TypeV("Left")
    /\ last.st = "TypeMismatchError" /\ last.param = "clock" /\ ~last.invoked
    /\ ClassesOf(last.log) = <<"FixedClock", "Left">>

\* The verdict of _is_type_compatible on a value and an expected type.
Checked == last.op = "_is_type_compatible"
Variants(t) == {UnionArgs(t)[i] : i \in DOMAIN UnionArgs(t)}
PlainTypes == CompatTypes \cap Classes

\* The rules for None and for unions: None is compatible with T exactly
\* when T is unconstrained, T is NoneType, or T is a union with NoneType
\* among its variants; another value is compatible with a union exactly
\* when one of the variants accepts it.
C22_NullAndUnions ==
    /\ (Checked /\ last.val = NoneV) =>
          (last.compatible <=>
              \/ last.key \in {NoHint, "Any", "NoneType"}
              \/ IsUnion(last.key) /\ "NoneType" \in Variants(last.key))
    /\ (Checked /\ last.val # NoneV /\ IsUnion(last.key)) =>
          (last.compatible <=>
              \E t \in Variants(last.key) : IsTypeCompatible(last.val, t))

\* C22, as stated: the rules for None and for unions, and a value other
\* than None is compatible with a plain type exactly when it is an
\* instance of that type.
C22_CompatibilityRules ==
    /\ C22_NullAndUnions
    /\ (Checked /\ last.val # NoneV /\ last.key \in PlainTypes) =>
          (last.compatible <=> last.key \in Mro(last.val.cls))

\* C22, amended: the rules for None and for unions; a value other than
\* None is compatible with a plain type that supports instance checks
\* exactly when it is an instance of that type, and with a protocol that
\* is not runtime_checkable whatever the value is.
C22_CompatibilityRules_Amended ==
    /\ C22_NullAndUnions
    /\ (Checked /\ last.val # NoneV /\ last.key \in PlainTypes \ Protocols) =>
          (last.compatible <=> last.key \in Mro(last.val.cls))
    /\ (Checked /\ last.val # NoneV /\ last.key \in Protocols) => last.compatible

C22_Witness ==
    /\ Checked /\ last.val = text0 /\ last.key = "Greeter" /\ last.compatible

\* What the type of parameter p resolves to on its own, with the given
\* stack, in the state at hand.
ParamAlone(c, p, stack) == ResolveType(Inj(c), p.hint, stack, <<>>, Heap0, 1)

\* The loop over the parameters ends at p with an exception.
Stops(c, p, stack, kwargs) ==
    IF p.name \in DOMAIN kwargs
    THEN ~ValidateParameterType(checking[c], kwargs[p.name], p.hint)
    ELSE LET r == ParamAlone(c, p, stack) IN
         \/ Raised(r.st)
         \/ r.st = "ok" /\ ~ValidateParameterType(checking[c], r.val, p.hint)

\* The first parameter, in declaration order, at which the loop ends.
FirstStop(c, params, stack, kwargs) ==
    {i \in DOMAIN params :
        /\ Stops(c, params[i], stack, kwargs)
        /\ \A j \in 1..(i - 1) : ~Stops(c, params[j], stack, kwargs)}

\* The exception that ends the loop at p.
StopError(c, p, stack, kwargs) ==
    IF p.name \notin DOMAIN kwargs /\ Raised(ParamAlone(c, p, stack).st)
    THEN ParamAlone(c, p, stack).st
    ELSE "TypeMismatchError"

\* C23: an exception raised during a resolution (by a constructor, or
\* TypeMismatchError for a nested parameter) ends the top-level resolve,
\* resolve_params or call with that exception: the constructor that
\* raised is the last one invoked, the owner of the failing parameter is
\* not invoked, and a union whose candidate raised does not try its next
\* candidate.
C23_NoRecovery ==
    /\ last.op \in ReadOps =>
          \A j \in DOMAIN last.log :
              last.log[j].st # "ok" => (j = Len(last.log) /\ last.st = last.log[j].st)
    /\ (last.op \in {"resolve_params", "call"} /\ last.target.kind = "function") =>
          \A i \in FirstStop(last.c, LastParams, <<>>, last.kwargs) :
              /\ last.st = StopError(last.c, LastParams[i], <<>>, last.kwargs)
              /\ last.param = LastParams[i].name
              /\ ~last.invoked
    /\ (last.op = "resolve" /\ last.key \in GraphClasses \cup {"Svc"}
           /\ Get(Inj(last.c), last.key) = NoneV) =>
          \A i \in FirstStop(last.c, InitParams(last.key), <<last.key>>, last.kwargs) :
              /\ last.st = StopError(last.c, InitParams(last.key)[i], <<last.key>>, last.kwargs)
              /\ \A j \in DOMAIN last.log : last.log[j].cls # last.key
    /\ (last.op = "resolve" /\ IsUnion(last.key)) =>
          \A i \in DOMAIN UnionArgs(last.key) :
              (/\ Raised(Candidate(last.c, last.key, i, last.kwargs).st)
               /\ \A j \in 1..(i - 1) :
                      Candidate(last.c, last.key, j, last.kwargs).st = "absent") =>
                  /\ last.st = Candidate(last.c, last.key, i, last.kwargs).st
                  /\ ClassesOf(last.log)
                        = ClassesOf(Candidate(last.c, last.key, i, last.kwargs).h.log)

C23_Witness ==
    /\ last.op = "resolve" /\ last.key = "Clock|FixedClock" /\ checking[last.c]
    /\ Items(last.c)["Clock"] = TypeV("Left") /\ Items(last.c)["FixedClock"] = text0
    /\ last.st = "TypeMismatchError" /\ last.log = <<>>

\* The constructor calls of Top's graph, depth-first, when FixedClock is
\* unbound.
SiblingOrder == <<"FixedClock", "Left", "FixedClock", "Right">>

\* Left and Right hold two FixedClock instances, not one.
TwoClocks(left, right) ==
    /\ left.cls = "Left" /\ right.cls = "Right"
    /\ left.args.clock.cls = "FixedClock" /\ right.args.clock.cls = "FixedClock"
    /\ left.args.clock.id # right.args.clock.id

\* The type both siblings need is no cycle: it is resolved once for each.
C24_SiblingsResolve ==
    /\ (last.op = "resolve" /\ last.key = "Top" /\ Items(last.c)["FixedClock"] = NoneV) =>
          /\ last.st = "ok"
          /\ ClassesOf(last.log) = SiblingOrder \o <<"Top">>
          /\ TwoClocks(last.val.args.left, last.val.args.right)
    /\ (last.op \in {"resolve_params", "call"} /\ last.target = pair
           /\ Items(last.c)["FixedClock"] = NoneV) =>
          /\ last.st = "ok"
          /\ ClassesOf(last.log) = SiblingOrder
          /\ TwoClocks(last.bound.left, last.bound.right)

\* The request that is repeated finds no trace of the previous one.
C24_FreshStack ==
    (Holding /\ last'.op \in ReadOps) =>
        (last'.st = last.st /\ ClassesOf(last'.log) = ClassesOf(last.log))

\* C24: the resolution stack holds the keys under construction on the path
\* from the top-level request and each top-level request starts with an
\* empty one: with Top(left: Left, right: Right), Left(clock: FixedClock),
\* Right(clock: FixedClock) and FixedClock unbound, FixedClock is resolved
\* for Left and again for Right, never taken for a cycle, and the two get
\* distinct instances; a repeated request ends as the first one did.
C24_StackHoldsAncestorsOnly == []C24_SiblingsResolve /\ [][C24_FreshStack]_vars

C24_Witness ==
    /\ last.op = "resolve" /\ last.key = "Top" /\ last.kwargs = <<>>
    /\ \A k \in Keys : Items(last.c)[k] = NoneV
    /\ last.st = "ok" /\ Len(last.log) = 5
    /\ last.val.args.left.args.clock # last.val.args.right.args.clock

\* The operations that only read the store.
Readers == ReadOps \cup {"resolve_class"}

\* One step of resolve, resolve_params, resolve_class or call, ended with
\* a result or with an exception: every store keeps its entries, and the
\* containers keep their stores and their validation switches.
C25_Step ==
    last'.op \in Readers =>
        /\ bindings' = bindings /\ origin' = origin
        /\ store' = store /\ checking' = checking /\ live' = live

\* C25: resolve, resolve_params, resolve_class and call add, remove and
\* change no binding of their container, whether they succeed or fail.
C25_ReadersLeaveStore == [][C25_Step]_vars

C25_Witness ==
    /\ last.op = "resolve" /\ last.key = "Svc" /\ last.st = "ok"
    /\ Items(last.c)["Svc"] = NoneV
    /\ Items(last.c)["Clock"] = TypeV("FixedClock")
    /\ ClassesOf(last.log) = <<"FixedClock", "Svc">>

\* One step of bind_singleton or bind_to_instance_of whose resolution
\* raised: no entry of the store is added or changed.
C26_Step ==
    (last'.op \in {"bind_singleton", "bind_to_instance_of"} /\ last'.st # "ok") =>
        (bindings' = bindings /\ origin' = origin)

\* C26: when the resolution inside bind_singleton or bind_to_instance_of
\* fails (ResolutionError, TypeMismatchError or a constructor's exception),
\* the store is as it was: the key keeps the binding it had, or none.
C26_AllOrNothing == [][C26_Step]_vars

C26_Witness ==
    /\ last.op = "bind_to_instance_of" /\ last.key = "Clock" /\ last.concrete = "Svc"
    /\ last.st = "TypeMismatchError"
    /\ Items(last.c)["Clock"] = text0 /\ WriterOf(last.c, "Clock") = "bind"

RECURSIVE AliasPath(_, _, _, _)
\* to is reached from the key from by following at most n bindings that
\* are classes.
AliasPath(c, from, to, n) ==
    \/ from = to
    \/ /\ n > 0 /\ IsAlias(Get(Inj(c), from))
       /\ AliasPath(c, Get(Inj(c), from).name, to, n - 1)

\* C30, as stated: for every store, those with a cycle of aliases
\* included, resolve_class(A) returns a type that is reached from A by
\* following the alias bindings and that is not bound to another type.
C30_ResolveClassTerminates ==
    last.op = "resolve_class" =>
        /\ last.st = "ok" /\ last.val.kind = "type"
        /\ AliasPath(last.c, last.key, last.val.name, Cardinality(Keys))
        /\ ~IsAlias(Get(Inj(last.c), last.val.name))

\* A key lies on, or leads into, a cycle of aliases.
RECURSIVE LeadsToCycle(_, _, _)
LeadsToCycle(c, t, n) ==
    IsAlias(Get(Inj(c), t)) /\ (n = 0 \/ LeadsToCycle(c, Get(Inj(c), t).name, n - 1))

\* What the code does: the chain that ends is followed to its end, the
\* chain that does not end raises RecursionError.
C30_ResolveClassFollowsChain ==
    last.op = "resolve_class" =>
        IF LeadsToCycle(last.c, last.key, Cardinality(Keys))
        THEN last.st = "RecursionError"
        ELSE /\ last.st = "ok" /\ last.val.kind = "type"
             /\ AliasPath(last.c, last.key, last.val.name, Cardinality(Keys))
             /\ ~IsAlias(Get(Inj(last.c), last.val.name))

C30_Witness ==
    /\ last.op = "resolve_class" /\ last.key = "A"
    /\ Items(last.c)["A"] = TypeV("B") /\ Items(last.c)["B"] = TypeV("A")
    /\ last.st = "RecursionError"

\* The values of a mapping.
Range(f) == {f[n] : n \in DOMAIN f}

\* The constructor calls of a resolve that are not the call that made the
\* returned instance: those of the dependencies.
DependencyCalls ==
    {j \in DOMAIN last.log : ~(j = Len(last.log) /\ last.st = "ok")}

\* C27: the overrides of resolve(A, **overrides) go along the alias
\* bindings and the union candidates to the constructor of the type that
\* is finally constructed, whose parameters of those names receive them;
\* the constructors of its dependencies receive only what the bindings
\* give; and a resolve that ends at a bound instance returns it and
\* ignores the overrides.
C27_OverrideScope ==
    /\ (last.op = "resolve" /\ last.st = "ok" /\ last.log # <<>>) =>
          /\ last.val.cls = last.log[Len(last.log)].cls
          /\ \A i \in DOMAIN InitParams(last.val.cls) :
                LET n == InitParams(last.val.cls)[i].name IN
                n \in DOMAIN last.kwargs => last.val.args[n] = last.kwargs[n]
    /\ last.op = "resolve" =>
          \A j \in DependencyCalls : \A n \in DOMAIN last.log[j].args :
              last.log[j].args[n] \in Range(last.kwargs) =>
                  \E k \in Keys : Items(last.c)[k] = last.log[j].args[n]
    /\ (last.op = "resolve" /\ last.key \in Keys \ Primitives
           /\ Items(last.c)[last.key].kind = "obj") =>
          (last.st = "ok" /\ last.val = Items(last.c)[last.key] /\ last.log = <<>>)

C27_Witness ==
    /\ last.op = "resolve" /\ last.key = "Top" /\ last.kwargs = [clock |-> fixedClock0]
    /\ Items(last.c)["FixedClock"] = NoneV
    /\ last.st = "ok" /\ Len(last.log) = 5
    /\ last.val.args.left.args.clock # fixedClock0
    /\ last.val.args.right.args.clock # fixedClock0

\* The names the target declares, and those among them that have an
\* override or whose type resolves to a value.
Declared(params) == {params[i].name : i \in DOMAIN params}
Supplied(c, params, kwargs) ==
    {params[i].name : i \in
        {j \in DOMAIN params :
            \/ params[j].name \in DOMAIN kwargs
            \/ ParamAlone(c, params[j], <<>>).st = "ok"}}

C29_Step ==
    ("child" \notin live /\ "child" \in live') =>
        /\ checking'["child"] = checking["root"]
        /\ \A k \in Keys : bindings'[store'["child"]][k] = bindings[store["root"]][k]

\* While parent and child hold the same instance for a key, resolve on the
\* child ends as resolve on the parent does, with that very instance.
C29_SameObject ==
    "child" \in live =>
        /\ checking["child"] = checking["root"]
        /\ (/\ last.op = "resolve" /\ last.c = "child" /\ last.key \in Keys
             /\ Items("root")[last.key].kind = "obj"
             /\ Items("child")[last.key] = Items("root")[last.key]) =>
               LET parent == Resolve(Inj("root"), last.key, last.kwargs, Heap0) IN
               /\ last.st = parent.st /\ last.val = parent.val
               /\ last.st = "ok" => last.val = Items("root")[last.key]

\* C29: create_child gives the child the parent's validation flag and the
\* parent's bound values themselves, not copies: for a key bound to an
\* instance at the snapshot, resolve on the child returns the same object
\* as resolve on the parent, until one of the two rebinds the key.
C29_ChildSharesInstances == []C29_SameObject /\ [][C29_Step]_vars

C29_Witness ==
    /\ "child" \in live /\ ~checking["child"]
    /\ last.op = "resolve" /\ last.c = "child" /\ last.key = "FixedClock"
    /\ WriterOf("root", "FixedClock") = "bind_singleton"
    /\ WriterOf("child", "FixedClock") = "bind_singleton"
    /\ last.st = "ok" /\ last.val = Items("root")["FixedClock"]
    /\ last.val # fixedClock0

====
